---------------------------- MODULE Spec2Model ----------------------------
(***************************************************************************)
(* up_vfork() of os/arch/arm/src/common/up_vfork.c as a state machine.     *)
(*                                                                         *)
(* One call of up_vfork() is followed from its entry to its return (or to  *)
(* the point where it stops).  The state holds the build configuration,    *)
(* the parent TCB, the captured context, the child TCB, the locals of      *)
(* up_vfork() and a record of the calls made to the task lifecycle         *)
(* manager (task_vforksetup, task_vforkstart, task_vforkabort), to the     *)
(* stack allocator (up_create_stack) and to memcpy.                        *)
(*                                                                         *)
(* Addresses and sizes are unsigned machine words (uint32_t, size_t): every *)
(* subtraction and addition of the code is taken modulo 2^WordBits.  The   *)
(* word is modelled WordBits wide; all addresses used lie below 2^WordBits *)
(* and the wrap-around of the unsigned arithmetic is kept.                 *)
(***************************************************************************)
EXTENDS Integers, Sequences, FiniteSets

(***************************************************************************)
(* Bounds of the model.                                                    *)
(***************************************************************************)
\* parent stacks of 1..MaxStackWords words of 4 bytes are enumerated
MaxStackWords == 3
\* depth of the per-TCB array of nested syscall return records
MaxSyscallNest == 2
\* width in bits of the modelled machine word
WordBits == 16

(***************************************************************************)
(* Program constants.                                                      *)
(***************************************************************************)
\* uint32_t / size_t arithmetic
WordMod == 2 ^ WordBits
\* stack alignment granularity of the ARM EABI
STACK_ALIGNMENT == 8
\* the error result returned to the caller
ERROR == -1
\* the status up_create_stack returns on success
OK == 0

Sub32(a, b) == (a - b) % WordMod
Add32(a, b) == (a + b) % WordMod

Min(a, b) == IF a <= b THEN a ELSE b

(***************************************************************************)
(* The saved-register array of a TCB (xcp.regs) and its indices.           *)
(***************************************************************************)
VolatileRegs == {"R4", "R5", "R6", "R7", "R8", "R9", "R10"}
RegNames == {"R0", "R1", "R2", "R3", "IP", "LR", "PC", "CPSR", "FP", "SP"}
               \cup VolatileRegs

SyscallIdx == 0 .. (MaxSyscallNest - 1)

VARIABLES
    cfg,         \* build configuration: [debug, lib_syscall]
    parent,      \* the TCB of this_task()
    context,     \* the struct vfork_s the caller captured
    child,       \* the child TCB (meaningful once childState # "none")
    childState,  \* "none" | "owned" | "scheduled" | "released"
    pc,          \* position of the call inside up_vfork()
    stacksize,   \* local stacksize
    stackutil,   \* local stackutil
    newsp,       \* local newsp
    newfp,       \* local newfp
    ret,         \* local ret
    retval,      \* the value up_vfork() returned
    abortCalls,  \* error codes of the task_vforkabort() calls, in order
    startCalls,  \* values returned by the task_vforkstart() calls, in order
    copied,      \* the memcpy() calls: <<[dst, src, n]>>
    log          \* the steps of up_vfork() taken so far, in order

vars == <<cfg, parent, context, child, childState, pc, stacksize, stackutil,
          newsp, newfp, ret, retval, abortCalls, startCalls, copied, log>>

(***************************************************************************)
(* Inputs.                                                                 *)
(***************************************************************************)
\* The adjusted stack top of the parent.
ParentTops == {8192}

\* Adjusted parent stack sizes: small word-sized stacks and one 4 KiB stack.
ParentSizes == {4 * k : k \in 1 .. MaxStackWords} \cup {4096}

\* Nested syscall return records of the parent.  Every slot of the array
\* holds data, also the slots at and above nsyscalls (stale records).
ParentSyscalls == [i \in SyscallIdx |->
                     [sysreturn |-> 36864 + 4 * i, excreturn |-> WordMod - 7 - 4 * i]]

\* Builds: DEBUGASSERT is compiled in or not; CONFIG_LIB_SYSCALL is set or
\* not.  Without CONFIG_LIB_SYSCALL a TCB has no syscall records at all.
Configs == [debug : BOOLEAN, lib_syscall : BOOLEAN]

Parents(c) ==
    { [adj_stack_ptr |-> t, adj_stack_size |-> s, nsyscalls |-> n,
       syscall |-> ParentSyscalls] :
         t \in ParentTops, s \in ParentSizes,
         n \in (IF c.lib_syscall THEN 0 .. MaxSyscallNest ELSE {0}) }

\* Captured stack pointers: above the top, at the top, inside the stack,
\* at its base and below its base.
CapturedSps(p) ==
    LET top == p.adj_stack_ptr
        base == p.adj_stack_ptr - p.adj_stack_size
    IN  {top + 4, top, base, base - 4}
          \cup {top - 4 * j : j \in 1 .. Min(MaxStackWords, p.adj_stack_size \div 4)}
          \cup (IF p.adj_stack_size >= 256 THEN {top - 256} ELSE {})

\* Captured frame pointers: none, around both ends of the window, inside.
CapturedFps(p) ==
    LET top == p.adj_stack_ptr
        low == p.adj_stack_ptr - (p.adj_stack_size + STACK_ALIGNMENT - 1)
    IN  {0, WordMod - 1, top + 4, top, top - 4, low, low - 1}
          \cup (IF p.adj_stack_size >= 128 THEN {top - 128} ELSE {})

Contexts(p) ==
    { [r4 |-> 16 * k + 4, r5 |-> 16 * k + 5, r6 |-> 16 * k + 6, r7 |-> 16 * k + 7,
       r8 |-> 16 * k + 8, r9 |-> 16 * k + 9, r10 |-> 16 * k + 10,
       fp |-> f, sp |-> s, lr |-> 32768 + 5 * k] :
         k \in 1 .. 2, f \in CapturedFps(p), s \in CapturedSps(p) }

(***************************************************************************)
(* External collaborators, modelled at their interface.                    *)
(***************************************************************************)
\* The TCB task_vforksetup() hands back: zeroed, then up_initial_state()
\* altered a few registers.
InitialRegs(entry) ==
    [r \in RegNames |-> IF r = "PC" THEN entry
                        ELSE IF r = "CPSR" THEN 19
                        ELSE 0]

NewChild(entry) ==
    [stack_base |-> 0, adj_stack_ptr |-> 0, adj_stack_size |-> 0,
     regs |-> InitialRegs(entry),
     nsyscalls |-> 0,
     syscall |-> [i \in SyscallIdx |-> [sysreturn |-> 0, excreturn |-> 0]]]

\* Outcomes of task_vforksetup(): NULL or a child TCB.
task_vforksetup(entry) == {[ok |-> FALSE], [ok |-> TRUE]}

\* Outcomes of up_create_stack(child, size, ttype): a negated errno, or a
\* stack region [base, base + adj) whose adjusted size lost less than one
\* alignment unit to alignment.
ChildBases == {12288}
AllocErrnos == {12, 22}
up_create_stack(size) ==
    { [ret |-> 0 - e, base |-> 0, adj |-> 0] : e \in AllocErrnos }
      \cup
    { [ret |-> OK, base |-> b, adj |-> size - loss] :
         b \in ChildBases,
         loss \in {l \in 0 .. (STACK_ALIGNMENT - 1) : size - l > 0} }

\* Outcomes of task_vforkstart(): the pid of the child, or ERROR after it
\* has discarded the TCB through task_vforkabort() itself.
ChildPid == 7
StartErrnos == {11}
task_vforkstart == {[ok |-> TRUE, errcode |-> 0]}
                     \cup {[ok |-> FALSE, errcode |-> e] : e \in StartErrnos}

(***************************************************************************)
(* Init                                                                    *)
(***************************************************************************)
Init ==
    /\ cfg \in Configs
    /\ parent \in Parents(cfg)
    /\ context \in Contexts(parent)
    /\ child = NewChild(0)
    /\ childState = "none"
    /\ pc = "setup"
    /\ stacksize = 0
    /\ stackutil = 0
    /\ newsp = 0
    /\ newfp = 0
    /\ ret = 0
    /\ retval = 0
    /\ abortCalls = <<>>
    /\ startCalls = <<>>
    /\ copied = <<>>
    /\ log = <<>>

(***************************************************************************)
(* child = task_vforksetup((start_t)(context->lr & ~1));                   *)
(***************************************************************************)
EntryPoint(ctx) == ctx.lr - (ctx.lr % 2)

Setup ==
    /\ pc = "setup"
    /\ \E r \in task_vforksetup(EntryPoint(context)) :
         IF r.ok
         THEN /\ child' = NewChild(EntryPoint(context))
              /\ childState' = "owned"
              /\ pc' = "stacksize"
              /\ retval' = retval
         ELSE /\ retval' = ERROR
              /\ pc' = "returned"
              /\ UNCHANGED <<child, childState>>
    /\ log' = Append(log, "setup")
    /\ UNCHANGED <<cfg, parent, context, stacksize, stackutil, newsp, newfp,
                   ret, abortCalls, startCalls, copied>>

(***************************************************************************)
(* stacksize = parent->adj_stack_size + STACK_ALIGNMENT - 1;               *)
(***************************************************************************)
StackSizeRoundedUp(p) ==
    ((p.adj_stack_size + STACK_ALIGNMENT - 1) \div STACK_ALIGNMENT) * STACK_ALIGNMENT

StackSizeNoSlack(p) == p.adj_stack_size

StackSize(p) == Add32(p.adj_stack_size, STACK_ALIGNMENT - 1)

ComputeStackSize ==
    /\ pc = "stacksize"
    /\ stacksize' = StackSize(parent)
    /\ pc' = "create_stack"
    /\ log' = Append(log, "stacksize")
    /\ UNCHANGED <<cfg, parent, context, child, childState, stackutil, newsp,
                   newfp, ret, retval, abortCalls, startCalls, copied>>

(***************************************************************************)
(* ret = up_create_stack(child, stacksize, ttype);                         *)
(* if (ret != OK) { task_vforkabort(child, -ret); return (pid_t)ERROR; }   *)
(***************************************************************************)
\* task_vforkabort(child, errcode): the child TCB is released.
task_vforkabort(errcode) ==
    /\ abortCalls' = Append(abortCalls, errcode)
    /\ childState' = "released"

OnCreateStackFailNoAbort(r) ==
    /\ retval' = ERROR
    /\ pc' = "returned"
    /\ UNCHANGED <<abortCalls, childState>>

OnCreateStackFailRawCode(r) ==
    /\ task_vforkabort(r)
    /\ retval' = ERROR
    /\ pc' = "returned"

OnCreateStackFail(r) ==
    /\ task_vforkabort(0 - r)
    /\ retval' = ERROR
    /\ pc' = "returned"

CreateStack ==
    /\ pc = "create_stack"
    /\ \E r \in up_create_stack(stacksize) :
         /\ ret' = r.ret
         /\ IF r.ret # OK
            THEN /\ OnCreateStackFail(r.ret)
                 /\ child' = child
            ELSE /\ child' = [child EXCEPT !.stack_base = r.base,
                                           !.adj_stack_size = r.adj,
                                           !.adj_stack_ptr = r.base + r.adj]
                 /\ pc' = "assert"
                 /\ UNCHANGED <<retval, abortCalls, childState>>
    /\ log' = Append(log, "create_stack")
    /\ UNCHANGED <<cfg, parent, context, stacksize, stackutil, newsp, newfp,
                   startCalls, copied>>

(***************************************************************************)
(* DEBUGASSERT((uint32_t)parent->adj_stack_ptr > context->sp);             *)
(***************************************************************************)
StackPtrCheckInclusive == parent.adj_stack_ptr >= context.sp

StackPtrCheck == parent.adj_stack_ptr > context.sp

\* DEBUGASSERT(f) tests f in debug builds and is empty otherwise.
DEBUGASSERT(f) == cfg.debug => f

CheckStackPtr ==
    /\ pc = "assert"
    /\ pc' = IF DEBUGASSERT(StackPtrCheck) THEN "copy" ELSE "halted"
    /\ log' = Append(log, "assert")
    /\ UNCHANGED <<cfg, parent, context, child, childState, stacksize,
                   stackutil, newsp, newfp, ret, retval, abortCalls,
                   startCalls, copied>>

(***************************************************************************)
(* stackutil = (uint32_t)parent->adj_stack_ptr - context->sp;              *)
(* newsp = (uint32_t)child->cmn.adj_stack_ptr - stackutil;                 *)
(* memcpy(newsp, context->sp, stackutil);                                  *)
(***************************************************************************)
StackUtilPlusWord(top, sp) == Add32(Sub32(top, sp), 4)

StackUtil(top, sp) == Sub32(top, sp)

NewSp(ctop, util) == Sub32(ctop, util)

ParentBase == parent.adj_stack_ptr - parent.adj_stack_size
ChildBase == child.stack_base
ChildEnd == child.stack_base + child.adj_stack_size

\* The n bytes read at src lie in the parent's stack region and the n bytes
\* written at dst lie in the child's.
CopyInBounds(dst, src, n) ==
    /\ ParentBase <= src
    /\ src + n <= parent.adj_stack_ptr
    /\ ChildBase <= dst
    /\ dst + n <= ChildEnd

\* A copy that leaves either region is undefined: the call faults, or it
\* returns having read and written foreign memory.
MemcpyOutcomes(dst, src, n) ==
    IF CopyInBounds(dst, src, n) THEN {"fp"} ELSE {"fp", "fault"}

CopyStack ==
    /\ pc = "copy"
    /\ LET util == StackUtil(parent.adj_stack_ptr, context.sp)
           sp == NewSp(child.adj_stack_ptr, util)
       IN  /\ stackutil' = util
           /\ newsp' = sp
           /\ copied' = Append(copied, [dst |-> sp, src |-> context.sp, n |-> util])
           /\ pc' \in MemcpyOutcomes(sp, context.sp, util)
    /\ log' = Append(log, "memcpy")
    /\ UNCHANGED <<cfg, parent, context, child, childState, stacksize, newfp,
                   ret, retval, abortCalls, startCalls>>

(***************************************************************************)
(* Was there a frame pointer in place before?                              *)
(***************************************************************************)
NewFpUnchanged(fp, ptop, size, ctop) == fp

NewFp(fp, ptop, size, ctop) ==
    IF fp <= ptop /\ fp >= Sub32(ptop, size)
    THEN LET frameutil == Sub32(ptop, fp)
         IN  Sub32(ctop, frameutil)
    ELSE fp

RebaseFp ==
    /\ pc = "fp"
    /\ newfp' = NewFp(context.fp, parent.adj_stack_ptr, stacksize, child.adj_stack_ptr)
    /\ pc' = "regs"
    /\ log' = Append(log, "fp")
    /\ UNCHANGED <<cfg, parent, context, child, childState, stacksize,
                   stackutil, newsp, ret, retval, abortCalls, startCalls, copied>>

(***************************************************************************)
(* child->cmn.xcp.regs[REG_R4..REG_R10, REG_FP, REG_SP] = ...              *)
(***************************************************************************)
TransferRegsSetR0(regs, ctx, fp, sp) ==
    [regs EXCEPT !["R0"] = ctx.r4, !["R4"] = ctx.r4, !["R5"] = ctx.r5,
                 !["R6"] = ctx.r6, !["R7"] = ctx.r7, !["R8"] = ctx.r8,
                 !["R9"] = ctx.r9, !["R10"] = ctx.r10,
                 !["FP"] = fp, !["SP"] = sp]

TransferRegs(regs, ctx, fp, sp) ==
    [regs EXCEPT !["R4"] = ctx.r4, !["R5"] = ctx.r5, !["R6"] = ctx.r6,
                 !["R7"] = ctx.r7, !["R8"] = ctx.r8, !["R9"] = ctx.r9,
                 !["R10"] = ctx.r10, !["FP"] = fp, !["SP"] = sp]

PcAfterRegsEarlyStart == "start"

\* The syscall block is compiled only with CONFIG_LIB_SYSCALL.
PcAfterRegs == IF cfg.lib_syscall THEN "syscall" ELSE "start"

WriteRegs ==
    /\ pc = "regs"
    /\ child' = [child EXCEPT !.regs = TransferRegs(child.regs, context, newfp, newsp)]
    /\ pc' = PcAfterRegs
    /\ log' = Append(log, "regs")
    /\ UNCHANGED <<cfg, parent, context, childState, stacksize, stackutil,
                   newsp, newfp, ret, retval, abortCalls, startCalls, copied>>

(***************************************************************************)
(* if (parent->xcp.nsyscalls > 0) { for (...) copy record; set count }     *)
(***************************************************************************)
ReplicateSyscallsNoCount(p, c) ==
    IF p.nsyscalls > 0
    THEN [c EXCEPT !.syscall = [i \in SyscallIdx |->
                                  IF i < p.nsyscalls THEN p.syscall[i]
                                  ELSE c.syscall[i]]]
    ELSE c

ReplicateSyscalls(p, c) ==
    IF p.nsyscalls > 0
    THEN [c EXCEPT !.syscall = [i \in SyscallIdx |->
                                  IF i < p.nsyscalls
                                  THEN [sysreturn |-> p.syscall[i].sysreturn,
                                        excreturn |-> p.syscall[i].excreturn]
                                  ELSE c.syscall[i]],
                   !.nsyscalls = p.nsyscalls]
    ELSE c

CopySyscalls ==
    /\ pc = "syscall"
    /\ child' = ReplicateSyscalls(parent, child)
    /\ pc' = "start"
    /\ log' = Append(log, "syscalls")
    /\ UNCHANGED <<cfg, parent, context, childState, stacksize, stackutil,
                   newsp, newfp, ret, retval, abortCalls, startCalls, copied>>

(***************************************************************************)
(* return task_vforkstart(child);                                          *)
(***************************************************************************)
Start ==
    /\ pc = "start"
    /\ \E r \in task_vforkstart :
         IF r.ok
         THEN /\ childState' = "scheduled"
              /\ retval' = ChildPid
              /\ startCalls' = Append(startCalls, ChildPid)
              /\ abortCalls' = abortCalls
         ELSE /\ task_vforkabort(r.errcode)
              /\ retval' = ERROR
              /\ startCalls' = Append(startCalls, ERROR)
    /\ pc' = "returned"
    /\ log' = Append(log, "start")
    /\ UNCHANGED <<cfg, parent, context, child, stacksize, stackutil, newsp,
                   newfp, ret, copied>>

Next ==
    \/ Setup
    \/ ComputeStackSize
    \/ CreateStack
    \/ CheckStackPtr
    \/ CopyStack
    \/ RebaseFp
    \/ WriteRegs
    \/ CopySyscalls
    \/ Start

Spec == Init /\ [][Next]_vars

(***************************************************************************)
(* Vocabulary of the properties.                                           *)
(***************************************************************************)
Has(e) == \E i \in DOMAIN log : log[i] = e

\* task_vforkstart() is about to be invoked, or has been.
AtStart == pc = "start" \/ Has("start")

\* Successful task_vforkstart() calls: the child was handed to the scheduler.
Handovers == Cardinality({i \in DOMAIN startCalls : startCalls[i] # ERROR})

\* The captured stack pointer lies inside the parent's stack region.
SpInParentStack == ParentBase <= context.sp /\ context.sp < parent.adj_stack_ptr

\* up_vfork() has not touched the child since task_vforksetup() returned it.
ChildRegsUntouched == child.regs = InitialRegs(EntryPoint(context))

(***************************************************************************)
(* C1: when up_vfork returns, the child TCB that setup created has been    *)
(* handed to the scheduler by a successful start or released by abort,     *)
(* exactly once in total (never both, never neither, abort never twice);   *)
(* when setup fails there is no child and neither abort nor start is       *)
(* invoked.                                                                *)
(***************************************************************************)
C1_CleanupExactlyOnce ==
    pc = "returned" =>
      IF childState = "none"
      THEN abortCalls = <<>> /\ startCalls = <<>>
      ELSE /\ Handovers + Len(abortCalls) = 1
           /\ Len(startCalls) <= 1
           /\ childState = (IF Handovers = 1 THEN "scheduled" ELSE "released")

\* up_vfork returned after task_vforkstart() failed and discarded the child.
C1_Witness ==
    /\ pc = "returned"
    /\ startCalls = <<ERROR>>
    /\ Len(abortCalls) = 1
    /\ childState = "released"

(***************************************************************************)
(* C2: when setup succeeds and up_create_stack fails, abort is invoked on  *)
(* the child exactly once with the allocator's error code (the errno that  *)
(* up_create_stack returned negated), ERROR is returned, and nothing later *)
(* happens: no copy, no write of a child register, no start.               *)
(***************************************************************************)
C2_AllocFailureAborts ==
    (Has("create_stack") /\ ret # OK) =>
      /\ abortCalls = <<0 - ret>>
      /\ (0 - ret) \in AllocErrnos
      /\ pc = "returned"
      /\ retval = ERROR
      /\ childState = "released"
      /\ copied = <<>>
      /\ child = NewChild(EntryPoint(context))
      /\ startCalls = <<>>
      /\ log[Len(log)] = "create_stack"

C2_Witness ==
    /\ Has("create_stack")
    /\ ret = -12
    /\ abortCalls = <<12>>
    /\ retval = ERROR

(***************************************************************************)
(* C3: start is invoked only after the stack copy, the re-basing of the    *)
(* frame pointer, the writes of R4-R10, FP and SP and the replication of   *)
(* the syscall return records are complete, and up_vfork takes no step     *)
(* after invoking start.                                                   *)
(***************************************************************************)
Before(e, i) == \E j \in 1 .. (i - 1) : log[j] = e

C3_StartAfterTransfer ==
    /\ \A i \in DOMAIN log :
         log[i] = "start" =>
           /\ i = Len(log)
           /\ Before("memcpy", i)
           /\ Before("fp", i)
           /\ Before("regs", i)
           /\ cfg.lib_syscall => Before("syscalls", i)
    /\ pc = "start" =>
         /\ Has("memcpy") /\ Has("regs")
         /\ child.regs["SP"] = newsp /\ child.regs["FP"] = newfp
         /\ cfg.lib_syscall => Has("syscalls")

C3_Witness ==
    /\ Has("start")
    /\ cfg.lib_syscall
    /\ parent.nsyscalls > 0
    /\ child.nsyscalls = parent.nsyscalls
    /\ childState = "scheduled"

(***************************************************************************)
(* C4: for every captured context whose stack pointer lies inside the      *)
(* parent's stack region and every child stack the allocator returns, the  *)
(* stack pointer stored in the child's saved registers (child top minus    *)
(* the stack utilization) lies in [childBase, childBase + childSize).      *)
(***************************************************************************)
C4_ChildSpContained ==
    (Has("regs") /\ SpInParentStack) =>
      /\ child.regs["SP"] = child.adj_stack_ptr - (parent.adj_stack_ptr - context.sp)
      /\ ChildBase <= child.regs["SP"]
      /\ child.regs["SP"] < ChildEnd

\* The boundary case: a full parent stack copied into a child stack of the
\* same size puts the child's stack pointer at the child's base.
C4_Witness ==
    /\ Has("regs")
    /\ context.sp = ParentBase
    /\ child.adj_stack_size = parent.adj_stack_size
    /\ child.regs["SP"] = ChildBase

(***************************************************************************)
(* C5 as stated: in every call that reaches the stack copy, the number of  *)
(* bytes copied equals parentTop - capturedSp and never exceeds            *)
(* min(parentSize, childSize), so the copy stays inside both regions.      *)
(***************************************************************************)
C5_CopyBoundEveryCall ==
    Has("memcpy") =>
      /\ copied[1].n = parent.adj_stack_ptr - context.sp
      /\ copied[1].n <= Min(parent.adj_stack_size, child.adj_stack_size)
      /\ CopyInBounds(copied[1].dst, copied[1].src, copied[1].n)

(***************************************************************************)
(* C5, amended: in every call that reaches the stack copy with a captured  *)
(* stack pointer inside the parent's stack region, exactly one copy is     *)
(* made, of parentTop - capturedSp bytes from capturedSp to the child's    *)
(* new stack pointer; that number never exceeds                            *)
(* min(parentSize, childSize), and the copy neither reads outside the      *)
(* parent's stack region nor writes outside the child's.                   *)
(***************************************************************************)
C5_CopyBound ==
    (Has("memcpy") /\ SpInParentStack) =>
      /\ Len(copied) = 1
      /\ copied[1].src = context.sp
      /\ copied[1].dst = newsp
      /\ copied[1].n = parent.adj_stack_ptr - context.sp
      /\ copied[1].n <= Min(parent.adj_stack_size, child.adj_stack_size)
      /\ CopyInBounds(copied[1].dst, copied[1].src, copied[1].n)
      /\ pc # "fault"

\* A full parent stack is copied into a child stack of the same size.
C5_Witness ==
    /\ Has("memcpy")
    /\ SpInParentStack
    /\ copied[1].n = parent.adj_stack_size
    /\ copied[1].n = child.adj_stack_size

(***************************************************************************)
(* C6: if the captured frame pointer lies in the parent's stack window     *)
(* [parentTop - stacksize, parentTop], both ends included, the frame       *)
(* pointer stored in the child is as far below the child's stack top as    *)
(* the captured one is below the parent's; otherwise the stored frame      *)
(* pointer is the captured one.                                            *)
(***************************************************************************)
FpInWindow ==
    /\ parent.adj_stack_ptr - stacksize <= context.fp
    /\ context.fp <= parent.adj_stack_ptr

C6_FramePointerRebased ==
    Has("regs") =>
      IF FpInWindow
      THEN child.adj_stack_ptr - child.regs["FP"] = parent.adj_stack_ptr - context.fp
      ELSE child.regs["FP"] = context.fp

\* parentTop = 0x2000, capturedFp = 0x1F80, childTop = 0x4000: childFp = 0x3F80.
C6_Witness ==
    /\ Has("regs")
    /\ parent.adj_stack_ptr = 8192
    /\ context.fp = 8064
    /\ child.adj_stack_ptr = 16384
    /\ child.regs["FP"] = 16256

(***************************************************************************)
(* C7: when start is invoked the child's count of nested syscall return    *)
(* records equals the parent's count N, every record below N is identical  *)
(* to the parent's, and for N = 0 the child's records and count are as     *)
(* setup left them.                                                        *)
(***************************************************************************)
C7_SyscallRecordsReplicated ==
    AtStart =>
      /\ child.nsyscalls = parent.nsyscalls
      /\ \A i \in SyscallIdx :
           i < parent.nsyscalls => child.syscall[i] = parent.syscall[i]
      /\ parent.nsyscalls = 0 =>
           /\ child.syscall = NewChild(0).syscall
           /\ child.nsyscalls = NewChild(0).nsyscalls

\* The parent forked from inside the deepest nesting of syscalls.
C7_Witness ==
    /\ pc = "start"
    /\ parent.nsyscalls = MaxSyscallNest
    /\ child.nsyscalls = MaxSyscallNest
    /\ child.syscall = parent.syscall

(***************************************************************************)
(* C8 as stated: a captured stack pointer above the parent's stack top     *)
(* (negative utilization) halts up_vfork before anything is copied,        *)
(* written or started; any other captured stack pointer is accepted.       *)
(***************************************************************************)
HaltedCleanly ==
    /\ pc = "halted"
    /\ copied = <<>>
    /\ ChildRegsUntouched
    /\ startCalls = <<>>
    /\ retval = 0

C8_NegativeUtilizationFatal ==
    Has("assert") =>
      IF context.sp > parent.adj_stack_ptr
      THEN HaltedCleanly
      ELSE pc # "halted"

(***************************************************************************)
(* C8, amended: in a build with debug assertions, a captured stack         *)
(* pointer at or above the parent's stack top (utilization zero or         *)
(* negative) halts up_vfork before anything is copied, written or started, *)
(* and it does not return; only a captured stack pointer below the top is  *)
(* accepted.  In a build without debug assertions nothing is checked:      *)
(* up_vfork never halts there and goes on with the utilization taken       *)
(* modulo the word size.                                                   *)
(***************************************************************************)
C8_StackPtrAssertion ==
    Has("assert") =>
      IF cfg.debug /\ context.sp >= parent.adj_stack_ptr
      THEN HaltedCleanly
      ELSE /\ pc # "halted"
           /\ Has("memcpy") =>
                stackutil = (parent.adj_stack_ptr - context.sp) % WordMod

\* Zero utilization is rejected by the assertion.
C8_Witness ==
    /\ pc = "halted"
    /\ cfg.debug
    /\ context.sp = parent.adj_stack_ptr

(***************************************************************************)
(* C9: when start is invoked, the child's R4-R10 hold the captured r4-r10  *)
(* and every saved register other than R4-R10, FP and SP holds what setup  *)
(* left in it; R0 is zero.                                                 *)
(***************************************************************************)
CapturedOf(r) ==
    CASE r = "R4" -> context.r4
      [] r = "R5" -> context.r5
      [] r = "R6" -> context.r6
      [] r = "R7" -> context.r7
      [] r = "R8" -> context.r8
      [] r = "R9" -> context.r9
      [] r = "R10" -> context.r10

C9_RegisterFrame ==
    AtStart =>
      /\ \A r \in VolatileRegs : child.regs[r] = CapturedOf(r)
      /\ \A r \in RegNames \ (VolatileRegs \cup {"FP", "SP"}) :
           child.regs[r] = InitialRegs(EntryPoint(context))[r]
      /\ child.regs["R0"] = 0

C9_Witness ==
    /\ pc = "start"
    /\ child.regs["R4"] = context.r4
    /\ child.regs["R10"] = context.r10
    /\ context.r4 # context.r10
    /\ child.regs["PC"] = EntryPoint(context)
    /\ child.regs["R0"] = 0

(***************************************************************************)
(* C10 as stated: the effective stack size is the parent's adjusted size   *)
(* rounded up to the alignment: a multiple of STACK_ALIGNMENT, not smaller *)
(* than the parent's size and less than STACK_ALIGNMENT above it.          *)
(***************************************************************************)
C10_EffectiveSizeRoundedUp ==
    Has("stacksize") =>
      /\ stacksize % STACK_ALIGNMENT = 0
      /\ stacksize >= parent.adj_stack_size
      /\ stacksize - parent.adj_stack_size < STACK_ALIGNMENT

(***************************************************************************)
(* C10, amended: the effective stack size that up_vfork requests for the   *)
(* child and uses as the width of the frame-pointer window is the parent's *)
(* adjusted size plus STACK_ALIGNMENT - 1, not rounded: it is never        *)
(* smaller than the parent's size, exceeds it by less than                 *)
(* STACK_ALIGNMENT, and is a multiple of STACK_ALIGNMENT only when the     *)
(* parent's size is one more than a multiple.                              *)
(***************************************************************************)
C10_EffectiveSizePadded ==
    Has("stacksize") =>
      /\ stacksize = parent.adj_stack_size + STACK_ALIGNMENT - 1
      /\ stacksize >= parent.adj_stack_size
      /\ stacksize - parent.adj_stack_size < STACK_ALIGNMENT
      /\ (stacksize % STACK_ALIGNMENT = 0) <=> (parent.adj_stack_size % STACK_ALIGNMENT = 1)
      /\ Has("create_stack") /\ ret = OK =>
           /\ child.adj_stack_size <= stacksize
           /\ stacksize - child.adj_stack_size < STACK_ALIGNMENT

\* A 4 KiB parent stack: 4103 bytes are requested for the child.
C10_Witness ==
    /\ Has("create_stack")
    /\ ret = OK
    /\ parent.adj_stack_size = 4096
    /\ stacksize = 4103

=============================================================================
